---- MODULE Spec2Model ----
(***************************************************************************)
(* The catalog export scripts: the series cache script, the card export,   *)
(* the product export and the combined export.  Text is modelled as a      *)
(* sequence of one-character strings, so that split, lower, capitalize,    *)
(* title and the f-string formatting are computed character by character.  *)
(***************************************************************************)
EXTENDS Integers, Sequences, FiniteSets, TLC

(* ------------------------------ bounds --------------------------------- *)
\* longest series list the series source returns
MaxSeries == 2
\* longest card list the card source returns
MaxCards == 2
\* longest product array the product API returns
MaxProducts == 2

(* --------------------------- text literals ------------------------------ *)
UPPER == <<"A", "B", "C", "D", "E", "F", "G", "H", "I", "J", "K", "L", "M", "N", "O", "P", "Q", "R", "S", "T", "U", "V", "W", "X", "Y", "Z">>
LOWER == <<"a", "b", "c", "d", "e", "f", "g", "h", "i", "j", "k", "l", "m", "n", "o", "p", "q", "r", "s", "t", "u", "v", "w", "x", "y", "z">>
DIGITS == <<"0", "1", "2", "3", "4", "5", "6", "7", "8", "9">>
STR_Empty == <<>>
STR_English == <<"E", "n", "g", "l", "i", "s", "h", ";">>
STR_EraRawSingle == <<" ", "E", "r", "a", ";", " ", "R", "a", "w", " ", "S", "i", "n", "g", "l", "e">>
STR_EraRawSingleCombined == <<" ", "E", "r", "a", ";", "R", "a", "w", " ", "S", "i", "n", "g", "l", "e">>
STR_Unknown == <<"U", "n", "k", "n", "o", "w", "n">>
STR_HighWebp == <<"/", "h", "i", "g", "h", ".", "w", "e", "b", "p">>
STR_Hash == <<" ", "#">>
STR_Semi == <<";">>
STR_Dash == "-"
STR_EraSealed == <<" ", "e", "r", "a", ";", "S", "e", "a", "l", "e", "d", " ", "P", "r", "o", "d", "u", "c", "t">>
STR_SealedProduct == <<";", "S", "e", "a", "l", "e", "d", " ", "P", "r", "o", "d", "u", "c", "t">>
STR_amount == <<"a", "m", "o", "u", "n", "t">>
STR_true == <<"t", "r", "u", "e">>

(* ------------------------ Python str operations ------------------------- *)
IsUpper(c) == \E i \in 1..Len(UPPER) : UPPER[i] = c
IsLower(c) == \E i \in 1..Len(LOWER) : LOWER[i] = c
IsCased(c) == IsUpper(c) \/ IsLower(c)
LowerChar(c) == IF IsUpper(c) THEN LOWER[CHOOSE i \in 1..Len(UPPER) : UPPER[i] = c] ELSE c
UpperChar(c) == IF IsLower(c) THEN UPPER[CHOOSE i \in 1..Len(LOWER) : LOWER[i] = c] ELSE c

\* str.lower()
lower(s) == [i \in 1..Len(s) |-> LowerChar(s[i])]

\* str.capitalize(): first character upper-cased, the rest lower-cased
capitalize(s) == [i \in 1..Len(s) |-> IF i = 1 THEN UpperChar(s[i]) ELSE LowerChar(s[i])]

\* str.title(): a cased character is upper-cased when it follows an uncased
\* character (or starts the string) and lower-cased otherwise
title(s) == [i \in 1..Len(s) |->
               IF i = 1 \/ ~IsCased(s[i - 1]) THEN UpperChar(s[i]) ELSE LowerChar(s[i])]

\* s.split(sep)[0]: the part of s before the first sep, all of s when there is none
split_first(s, sep) ==
    IF \E i \in 1..Len(s) : s[i] = sep
    THEN SubSeq(s, 1, (CHOOSE i \in 1..Len(s) : s[i] = sep /\ \A j \in 1..(i - 1) : s[j] # sep) - 1)
    ELSE s

\* str(n) of a natural number, as csv.writer writes a number
RECURSIVE str_of_int(_)
str_of_int(n) == IF n < 10 THEN <<DIGITS[n + 1]>> ELSE str_of_int(n \div 10) \o <<DIGITS[(n % 10) + 1]>>

(* ----------------------------- Python dict ------------------------------ *)
\* A dict is the sequence of its (key, value) items in insertion order.
dict_has(d, k) == \E i \in 1..Len(d) : d[i][1] = k

\* d.get(k, default)
dict_get(d, k, default) ==
    IF dict_has(d, k) THEN d[CHOOSE i \in 1..Len(d) : d[i][1] = k][2] ELSE default

\* d[k] = v: an existing key keeps its place and takes the new value
dict_set(d, k, v) ==
    IF dict_has(d, k)
    THEN [i \in 1..Len(d) |-> IF d[i][1] = k THEN <<k, v>> ELSE d[i]]
    ELSE Append(d, <<k, v>>)

\* dict equality: the same keys with the same values, whatever the order
dict_items(d) == {d[i] : i \in 1..Len(d)}

(* ------------------------------- files ---------------------------------- *)
NoFile == [exists |-> FALSE, content |-> <<>>]
File(content) == [exists |-> TRUE, content |-> content]

\* json.dump(cache, f, indent=2): the text of a JSON object, one member
\* "name": "value" per item, in the dict's order
json_dump(d) == [i \in 1..Len(d) |-> [name |-> d[i][1], value |-> d[i][2]]]

\* json.load(f): a dict built from the members in file order (a repeated
\* member name keeps the last value)
RECURSIVE json_load(_)
json_load(text) ==
    IF text = <<>> THEN <<>>
    ELSE LET n == Len(text)
             rest == json_load(SubSeq(text, 1, n - 1))
         IN dict_set(rest, text[n].name, text[n].value)

\* mutation of cache_exists: the existence test always answers no
cache_exists_never(f) == FALSE

\* os.path.exists(CACHE_FILE)
cache_exists(f) == f.exists

(* --------------------------- remote records ----------------------------- *)
\* card briefs returned by tcgdex.card.list()
CARD_NAME_1 == <<"F", "r", "o", "s", "l", "a", "s", "s">>
CARD_NAME_2 == <<"P", "i", "k", "a", "c", "h", "u">>
CARD_IMAGE == <<"h", "t", "t", "p", "s", ":", "/", "/", "x", "/", "i", "m", "g">>
CardPool ==
    { [id |-> <<"S", "W", "S", "H", "8", "-", "1", "5", "0">>, name |-> CARD_NAME_1,
       localId |-> <<"1", "5", "0">>, image |-> CARD_IMAGE],
      [id |-> <<"s", "w", "s", "h", "8", "-", "7">>, name |-> CARD_NAME_2,
       localId |-> <<"7">>, image |-> CARD_IMAGE] }
CardLists == UNION {[1..n -> CardPool] : n \in 0..MaxCards}

\* set identifiers as the series and set sources spell them
SET_SWSH8 == <<"S", "W", "S", "H", "8">>
SET_swsh8 == <<"s", "w", "s", "h", "8">>
SET_sv1 == <<"s", "v", "1">>

\* series names, by position in the list tcgdex.serie.list() returns
SeriesNames ==
    << <<"S", "w", "o", "r", "d", " ", "&", " ", "S", "h", "i", "e", "l", "d">>,
       <<"S", "c", "a", "r", "l", "e", "t", " ", "&", " ", "V", "i", "o", "l", "e", "t">>,
       <<"B", "l", "a", "c", "k", " ", "&", " ", "W", "h", "i", "t", "e">>,
       <<"B", "a", "s", "e">> >>
SeriesName(i) == SeriesNames[((i - 1) % Len(SeriesNames)) + 1]

\* what tcgdex.serie.list() may return: the briefs of the first n series
SeriesLists == {[i \in 1..n |-> [id |-> i]] : n \in 0..MaxSeries}

\* the sets attribute of a series detail: absent, empty, or a list of set resumes
SetsChoices ==
    { [has_sets |-> FALSE, sets |-> <<>>],
      [has_sets |-> TRUE, sets |-> <<>>],
      [has_sets |-> TRUE, sets |-> <<[id |-> SET_SWSH8]>>],
      [has_sets |-> TRUE, sets |-> <<[id |-> SET_sv1]>>],
      [has_sets |-> TRUE, sets |-> <<[id |-> SET_swsh8], [id |-> SET_sv1]>>] }

\* what tcgdex.serie.get(id) may return for series id
SeriesDetails(id) ==
    {[name |-> SeriesName(id), has_sets |-> c.has_sets, sets |-> c.sets] : c \in SetsChoices}

\* what tcgdex.set.list() may return: set resumes, with or without a series attribute
SetLists ==
    { <<>>,
      <<[id |-> SET_SWSH8, has_series |-> FALSE, series |-> <<>>]>>,
      <<[id |-> SET_swsh8, has_series |-> TRUE, series |-> SeriesName(1)],
        [id |-> SET_sv1, has_series |-> FALSE, series |-> <<>>]>> }

\* product objects of the PokeData API's JSON array
PRODUCT_IMG == <<"h", "t", "t", "p", "s", ":", "/", "/", "y", "/", "p">>
P_full ==
    [id |-> <<"p", "1">>, name |-> <<"B", "o", "x">>, img_url |-> PRODUCT_IMG,
     language |-> <<"e", "n", "g", "l", "i", "s", "h">>,
     series |-> <<"s", "w", "o", "r", "d", " ", "a", "n", "d", " ", "s", "h", "i", "e", "l", "d">>,
     market_value |-> 12]
P_min ==
    [id |-> <<"p", "2">>, name |-> <<"T", "i", "n">>, img_url |-> PRODUCT_IMG, market_value |-> 30]
RequiredKeys == {"id", "name", "img_url", "market_value"}
Without(p, k) == [f \in (DOMAIN p) \ {k} |-> p[f]]
ProductPool == {P_full, P_min} \cup {Without(P_full, k) : k \in RequiredKeys}
ProductLists == UNION {[1..n -> ProductPool] : n \in 0..MaxProducts}

(* ----------------------------- normalizers ------------------------------ *)
\* mutation of full_set_code: the .lower() is dropped
full_set_code_as_spelled(card) == split_first(card.id, STR_Dash)

\* generate_card_data_script.transform_card, lines 29-30: the lookup key
full_set_code(card) == lower(split_first(card.id, STR_Dash))
series_name_of(card, series_mapping) == dict_get(series_mapping, full_set_code(card), STR_Unknown)

card_row(card, collection) ==
    [handleId |-> card.id,
     name |-> card.name \o STR_Hash \o card.localId,
     productImageUrl |-> card.image \o STR_HighWebp,
     collection |-> collection,
     sku |-> card.id,
     price |-> 0, inventory |-> 0,
     discountMode |-> STR_amount, visible |-> STR_true, ribbon |-> STR_Empty, weight |-> 0]

\* generate_card_data_script.transform_card
transform_card(card, series_mapping) ==
    card_row(card, STR_English \o series_name_of(card, series_mapping) \o STR_EraRawSingle)

\* generate_combined_csv_script.transform_card
combined_transform_card(card, series_mapping) ==
    card_row(card, STR_English \o series_name_of(card, series_mapping) \o STR_EraRawSingleCombined)

\* mutation of transform_product_raises: language is read with product["language"]
transform_product_raises_language(product) ==
    \E k \in RequiredKeys \cup {"language"} : k \notin DOMAIN product

\* product[k] raises KeyError for an absent key
transform_product_raises(product) == \E k \in RequiredKeys : k \notin DOMAIN product

\* transform_product, for a product on which it does not raise
transform_product(product) ==
    LET language_pascal == capitalize(IF "language" \in DOMAIN product THEN product["language"] ELSE STR_Empty)
        series_pascal == IF "series" \in DOMAIN product /\ product["series"] # STR_Empty
                         THEN title(product["series"]) ELSE STR_Empty
        collection == IF series_pascal # STR_Empty
                      THEN language_pascal \o STR_Semi \o series_pascal \o STR_EraSealed
                      ELSE language_pascal \o STR_SealedProduct
    IN [handleId |-> product["id"],
        name |-> product["name"],
        productImageUrl |-> product["img_url"],
        collection |-> collection,
        sku |-> product["id"],
        price |-> product["market_value"], inventory |-> 0,
        discountMode |-> STR_amount, visible |-> STR_true, ribbon |-> STR_Empty, weight |-> 0]

\* [transform_product(prod) for prod in raw_products]: raises when any element does
transform_all_raises(raw_products) ==
    \E i \in 1..Len(raw_products) : transform_product_raises(raw_products[i])
transform_all(raw_products) == [i \in 1..Len(raw_products) |-> transform_product(raw_products[i])]

(* ------------------------------ CSV output ------------------------------ *)
HEADER == <<<<"h", "a", "n", "d", "l", "e", "I", "d">>, <<"n", "a", "m", "e">>, <<"p", "r", "o", "d", "u", "c", "t", "I", "m", "a", "g", "e", "U", "r", "l">>, <<"c", "o", "l", "l", "e", "c", "t", "i", "o", "n">>, <<"s", "k", "u">>, <<"p", "r", "i", "c", "e">>, <<"i", "n", "v", "e", "n", "t", "o", "r", "y">>, <<"d", "i", "s", "c", "o", "u", "n", "t", "M", "o", "d", "e">>, <<"v", "i", "s", "i", "b", "l", "e">>, <<"r", "i", "b", "b", "o", "n">>, <<"w", "e", "i", "g", "h", "t">>>>

\* writer.writerow(row): the values in fieldnames order, numbers written by str()
csv_line(row) ==
    <<row.handleId, row.name, row.productImageUrl, row.collection, row.sku,
      str_of_int(row.price), str_of_int(row.inventory), row.discountMode, row.visible,
      row.ribbon, str_of_int(row.weight)>>

\* open(filename, "w") ... writeheader() ... writerow(row) for each row
write_csv(rows) == File(<<HEADER>> \o [i \in 1..Len(rows) |-> csv_line(rows[i])])

\* a file left at the output path by an earlier export
StaleOutput == File(<<HEADER, <<<<"o", "l", "d">>, <<>>, <<>>, <<>>, <<"o", "l", "d">>, <<"0">>, <<"0">>, STR_amount, STR_true, <<>>, <<"0">>>>>>)
PriorOutputs == {NoFile, StaleOutput}

(* --------------------------- series cache build ------------------------- *)
\* build_series_cache lines 33-40: one series' sets entered into the cache
RECURSIVE map_sets(_, _, _)
map_sets(series_cache, sets, name) ==
    IF sets = <<>> THEN series_cache
    ELSE map_sets(dict_set(series_cache, lower(Head(sets).id), name), Tail(sets), name)

\* mutation of add_series: the cache is started afresh for every series
add_series_afresh(series_cache, detailed_series) ==
    IF detailed_series.has_sets /\ detailed_series.sets # <<>>
    THEN map_sets(<<>>, detailed_series.sets, detailed_series.name)
    ELSE <<>>

add_series(series_cache, detailed_series) ==
    IF detailed_series.has_sets /\ detailed_series.sets # <<>>
    THEN map_sets(series_cache, detailed_series.sets, detailed_series.name)
    ELSE series_cache

\* build_series_cache lines 23-42 as a function of the details fetched, in order
RECURSIVE build_all(_, _)
build_all(series_cache, details) ==
    IF details = <<>> THEN series_cache
    ELSE build_all(add_series(series_cache, Head(details)), Tail(details))

\* load_series_cache lines 63-70: the mapping built from the set list
RECURSIVE mapping_from_sets(_, _)
mapping_from_sets(series_mapping, sets) ==
    IF sets = <<>> THEN series_mapping
    ELSE LET s == Head(sets)
             series_name == IF s.has_series THEN s.series ELSE STR_Unknown
         IN mapping_from_sets(dict_set(series_mapping, lower(s.id), series_name), Tail(sets))

(* -------------------------------- state --------------------------------- *)
VARIABLES
    script,         \* the script being run: "cache", "cards", "products", "combined" ("none" before the first run)
    pc,             \* where its main() stands
    cacheFile,      \* ./data/series_cache.json
    outFile,        \* the running script's output CSV
    cacheAtStart,   \* history: cacheFile when the run started
    calls,          \* history: the remote calls of this run, in order, with their outcome
    logged,         \* the stages whose error message this run printed
    series_briefs,  \* build_series_cache: the list serie.list() returned
    detailed,       \* build_series_cache: the details fetched so far, in order
    series_cache,   \* build_series_cache: the mapping under construction
    series_mapping, \* the mapping main() / load_series_cache() ends up with
    card_briefs,    \* the list card.list() returned
    raw_products,   \* the array fetch_products() returned
    rows,           \* csv_rows / transformed_products / combined_rows
    prodOutcome,    \* history: "none", "ok", "fetch_failed" or "key_error"
    cardOutcome     \* history: "none", "ok", "list_failed" or "cache_failed"

vars == <<script, pc, cacheFile, outFile, cacheAtStart, calls, logged, series_briefs,
          detailed, series_cache, series_mapping, card_briefs, raw_products, rows,
          prodOutcome, cardOutcome>>

Scripts == {"cache", "cards", "products", "combined"}

\* the first statement of each script's main()
entry(s) ==
    CASE s = "cache" -> "cache_main"
      [] s = "cards" -> "card_list"
      [] s = "products" -> "products_main"
      [] s = "combined" -> "product_stage"

call(op, arg, ok) == [op |-> op, arg |-> arg, ok |-> ok]

Init ==
    /\ script = "none"
    /\ pc = "idle"
    /\ cacheFile = NoFile
    /\ outFile = NoFile
    /\ cacheAtStart = NoFile
    /\ calls = <<>>
    /\ logged = {}
    /\ series_briefs = <<>>
    /\ detailed = <<>>
    /\ series_cache = <<>>
    /\ series_mapping = <<>>
    /\ card_briefs = <<>>
    /\ raw_products = <<>>
    /\ rows = <<>>
    /\ prodOutcome = "none"
    /\ cardOutcome = "none"

\* A script is started (python <script>.py) once the previous run has ended.
\* No script reads its output file, which is only ever opened with "w", so
\* what the output path holds at the start is drawn from PriorOutputs.
StartRun(s) ==
    /\ pc \in {"idle", "done", "crashed"}
    /\ script' = s
    /\ pc' = entry(s)
    /\ cacheAtStart' = cacheFile
    /\ outFile' \in PriorOutputs
    /\ calls' = <<>>
    /\ logged' = {}
    /\ series_briefs' = <<>>
    /\ detailed' = <<>>
    /\ series_cache' = <<>>
    /\ series_mapping' = <<>>
    /\ card_briefs' = <<>>
    /\ raw_products' = <<>>
    /\ rows' = <<>>
    /\ prodOutcome' = "none"
    /\ cardOutcome' = "none"
    /\ UNCHANGED cacheFile

(* ------------------- generate_series_cache_script.main ------------------ *)
\* mutation of file_after_abort: what was built so far is written on the way out
file_after_abort_saves(file, partial_cache) == File(json_dump(partial_cache))

\* An exception inside build_series_cache leaves main() at line 53, before
\* the open(CACHE_FILE, "w") of line 54: the file is what it was.
file_after_abort(file, partial_cache) == file

\* lines 46-50: the cache file exists and is loaded
CacheMainLoad ==
    /\ script = "cache" /\ pc = "cache_main"
    /\ cache_exists(cacheFile)
    /\ series_mapping' = json_load(cacheFile.content)
    /\ pc' = "done"
    /\ UNCHANGED <<script, cacheFile, outFile, cacheAtStart, calls, logged, series_briefs,
                   detailed, series_cache, card_briefs, raw_products, rows, prodOutcome, cardOutcome>>

\* lines 51-53, 15-23: no cache file; build_series_cache awaits serie.list().
\* An exception leaves main() uncaught.
SerieList ==
    /\ script = "cache" /\ pc = "cache_main"
    /\ ~cache_exists(cacheFile)
    /\ \/ /\ calls' = Append(calls, call("serie.list", 0, FALSE))
          /\ pc' = "crashed"
          /\ cacheFile' = file_after_abort(cacheFile, series_cache)
          /\ UNCHANGED <<series_briefs, series_cache>>
       \/ \E r \in SeriesLists :
            /\ calls' = Append(calls, call("serie.list", 0, TRUE))
            /\ series_briefs' = r
            /\ series_cache' = <<>>
            /\ pc' = "serie_get"
            /\ UNCHANGED cacheFile
    /\ UNCHANGED <<script, outFile, cacheAtStart, logged, detailed, series_mapping,
                   card_briefs, raw_products, rows, prodOutcome, cardOutcome>>

\* lines 25-40: one pass of the loop, awaiting serie.get(brief.id)
SerieGet ==
    /\ script = "cache" /\ pc = "serie_get"
    /\ Len(detailed) < Len(series_briefs)
    /\ LET brief == series_briefs[Len(detailed) + 1] IN
         \/ /\ calls' = Append(calls, call("serie.get", brief.id, FALSE))
            /\ pc' = "crashed"
            /\ cacheFile' = file_after_abort(cacheFile, series_cache)
            /\ UNCHANGED <<detailed, series_cache>>
         \/ \E detailed_series \in SeriesDetails(brief.id) :
              /\ calls' = Append(calls, call("serie.get", brief.id, TRUE))
              /\ series_cache' = add_series(series_cache, detailed_series)
              /\ detailed' = Append(detailed, detailed_series)
              /\ pc' = "serie_get"
              /\ UNCHANGED cacheFile
    /\ UNCHANGED <<script, outFile, cacheAtStart, logged, series_briefs, series_mapping,
                   card_briefs, raw_products, rows, prodOutcome, cardOutcome>>

\* lines 42, 53-56: the loop is over; the cache is returned and written
SaveCache ==
    /\ script = "cache" /\ pc = "serie_get"
    /\ Len(detailed) = Len(series_briefs)
    /\ series_mapping' = series_cache
    /\ cacheFile' = File(json_dump(series_cache))
    /\ pc' = "done"
    /\ UNCHANGED <<script, outFile, cacheAtStart, calls, logged, series_briefs, detailed,
                   series_cache, card_briefs, raw_products, rows, prodOutcome, cardOutcome>>

(* ------------------------- the card stage ------------------------------- *)
\* mutation of card_stage_raises: the combined script has no handler either
card_stage_raises_uncaught(s) == "crashed"

\* An exception in the card stage: generate_card_data_script.main has no
\* handler (the run dies); generate_combined_csv_script.main catches it
\* (lines 173-174), prints, and goes on to write the CSV.
card_stage_raises(s) == IF s = "combined" THEN "write" ELSE "crashed"
card_stage_logs(s, log) == IF s = "combined" THEN log \cup {"cards"} ELSE log

\* await tcgdex.card.list()
CardList ==
    /\ script \in {"cards", "combined"} /\ pc = "card_list"
    /\ \/ /\ calls' = Append(calls, call("card.list", 0, FALSE))
          /\ cardOutcome' = "list_failed"
          /\ pc' = card_stage_raises(script)
          /\ logged' = card_stage_logs(script, logged)
          /\ UNCHANGED card_briefs
       \/ \E r \in CardLists :
            /\ calls' = Append(calls, call("card.list", 0, TRUE))
            /\ card_briefs' = r
            /\ pc' = "load_cache"
            /\ UNCHANGED <<cardOutcome, logged>>
    /\ UNCHANGED <<script, cacheFile, outFile, cacheAtStart, series_briefs, detailed,
                   series_cache, series_mapping, raw_products, rows, prodOutcome>>

\* load_series_cache: the cache file exists and is loaded
LoadSeriesCacheFromFile ==
    /\ script \in {"cards", "combined"} /\ pc = "load_cache"
    /\ cache_exists(cacheFile)
    /\ series_mapping' = json_load(cacheFile.content)
    /\ pc' = "transform"
    /\ UNCHANGED <<script, cacheFile, outFile, cacheAtStart, calls, logged, series_briefs,
                   detailed, series_cache, card_briefs, raw_products, rows, prodOutcome, cardOutcome>>

\* load_series_cache: no cache file; await tcgdex.set.list(), build, save
LoadSeriesCacheFromApi ==
    /\ script \in {"cards", "combined"} /\ pc = "load_cache"
    /\ ~cache_exists(cacheFile)
    /\ \/ /\ calls' = Append(calls, call("set.list", 0, FALSE))
          /\ cardOutcome' = "cache_failed"
          /\ pc' = card_stage_raises(script)
          /\ logged' = card_stage_logs(script, logged)
          /\ UNCHANGED <<series_mapping, cacheFile>>
       \/ \E sets \in SetLists :
            /\ calls' = Append(calls, call("set.list", 0, TRUE))
            /\ series_mapping' = mapping_from_sets(<<>>, sets)
            /\ cacheFile' = File(json_dump(mapping_from_sets(<<>>, sets)))
            /\ pc' = "transform"
            /\ UNCHANGED <<cardOutcome, logged>>
    /\ UNCHANGED <<script, outFile, cacheAtStart, series_briefs, detailed, series_cache,
                   card_briefs, raw_products, rows, prodOutcome>>

\* mutation of extend: the new rows are put in front
extend_in_front(list, more) == more \o list

\* list.extend
extend(list, more) == list \o more

\* the list comprehension over card_briefs, and combined_rows.extend(card_rows)
TransformCards ==
    /\ script \in {"cards", "combined"} /\ pc = "transform"
    /\ rows' = extend(rows, [i \in 1..Len(card_briefs) |->
                               IF script = "combined"
                               THEN combined_transform_card(card_briefs[i], series_mapping)
                               ELSE transform_card(card_briefs[i], series_mapping)])
    /\ cardOutcome' = "ok"
    /\ pc' = "write"
    /\ UNCHANGED <<script, cacheFile, outFile, cacheAtStart, calls, logged, series_briefs,
                   detailed, series_cache, series_mapping, card_briefs, raw_products, prodOutcome>>

\* the csv.DictWriter block that ends main()
WriteCsv ==
    /\ script \in {"cards", "combined"} /\ pc = "write"
    /\ outFile' = write_csv(rows)
    /\ pc' = "done"
    /\ UNCHANGED <<script, cacheFile, cacheAtStart, calls, logged, series_briefs, detailed,
                   series_cache, series_mapping, card_briefs, raw_products, rows,
                   prodOutcome, cardOutcome>>

(* ------------------------ the product stage ----------------------------- *)
\* generate_product_data_script.main: fetch, transform and write inside one
\* try; any exception is printed and nothing is written
ProductsMain ==
    /\ script = "products" /\ pc = "products_main"
    /\ \/ /\ calls' = Append(calls, call("products.get", 0, FALSE))
          /\ prodOutcome' = "fetch_failed"
          /\ logged' = logged \cup {"products"}
          /\ UNCHANGED <<raw_products, rows, outFile>>
       \/ \E r \in ProductLists :
            /\ calls' = Append(calls, call("products.get", 0, TRUE))
            /\ raw_products' = r
            /\ IF transform_all_raises(r)
               THEN /\ prodOutcome' = "key_error"
                    /\ logged' = logged \cup {"products"}
                    /\ UNCHANGED <<rows, outFile>>
               ELSE /\ prodOutcome' = "ok"
                    /\ rows' = transform_all(r)
                    /\ outFile' = write_csv(transform_all(r))
                    /\ UNCHANGED logged
    /\ pc' = "done"
    /\ UNCHANGED <<script, cacheFile, cacheAtStart, series_briefs, detailed, series_cache,
                   series_mapping, card_briefs, cardOutcome>>

\* generate_combined_csv_script.main lines 157-167: the product try block
ProductStage ==
    /\ script = "combined" /\ pc = "product_stage"
    /\ \/ /\ calls' = Append(calls, call("products.get", 0, FALSE))
          /\ prodOutcome' = "fetch_failed"
          /\ logged' = logged \cup {"products"}
          /\ UNCHANGED <<raw_products, rows>>
       \/ \E r \in ProductLists :
            /\ calls' = Append(calls, call("products.get", 0, TRUE))
            /\ raw_products' = r
            /\ IF transform_all_raises(r)
               THEN /\ prodOutcome' = "key_error"
                    /\ logged' = logged \cup {"products"}
                    /\ UNCHANGED rows
               ELSE /\ prodOutcome' = "ok"
                    /\ rows' = extend(rows, transform_all(r))
                    /\ UNCHANGED logged
    /\ pc' = "card_list"
    /\ UNCHANGED <<script, cacheFile, outFile, cacheAtStart, series_briefs, detailed,
                   series_cache, series_mapping, card_briefs, cardOutcome>>

(* ------------------------------ behaviours ------------------------------ *)
Next ==
    \/ \E s \in Scripts : StartRun(s)
    \/ CacheMainLoad
    \/ SerieList
    \/ SerieGet
    \/ SaveCache
    \/ CardList
    \/ LoadSeriesCacheFromFile
    \/ LoadSeriesCacheFromApi
    \/ TransformCards
    \/ WriteCsv
    \/ ProductsMain
    \/ ProductStage

Spec == Init /\ [][Next]_vars

(* ------------------------------- claims --------------------------------- *)
\* what the claims read off a run
Called(op) == \E i \in 1..Len(calls) : calls[i].op = op
Failed(op) == \E i \in 1..Len(calls) : calls[i].op = op /\ ~calls[i].ok
Succeeded(op) == \E i \in 1..Len(calls) : calls[i].op = op /\ calls[i].ok
SeriesSourceOps == {"serie.list", "serie.get", "set.list"}
NumProductRows == IF prodOutcome = "ok" THEN Len(raw_products) ELSE 0
NumCardRows == IF cardOutcome = "ok" THEN Len(card_briefs) ELSE 0
RowsCollected == pc \in {"write", "done"}
WellFormed(product) == RequiredKeys \subseteq DOMAIN product

\* C1: in the combined export a source whose fetch fails contributes no row
\* and the other source is still fetched and normalized, whatever the
\* outcomes of the two fetches; with the product fetch failing and the card
\* fetch succeeding the rows are exactly the cards' rows in card order.
C1_PartialResults ==
    script = "combined" =>
        /\ pc # "crashed"
        /\ RowsCollected =>
             /\ Called("products.get") /\ Called("card.list")
             /\ Failed("products.get") => prodOutcome = "fetch_failed"
             /\ (Failed("card.list") \/ Failed("set.list")) => cardOutcome \in {"list_failed", "cache_failed"}
             /\ Succeeded("products.get") /\ (\A i \in 1..Len(raw_products) : WellFormed(raw_products[i]))
                  => prodOutcome = "ok"
             /\ Succeeded("card.list") /\ ~Failed("set.list") => cardOutcome = "ok"
             /\ Len(rows) = NumProductRows + NumCardRows
             /\ \A i \in 1..NumProductRows : rows[i].handleId = raw_products[i]["id"]
             /\ \A j \in 1..NumCardRows : rows[NumProductRows + j].handleId = card_briefs[j].id
             /\ (prodOutcome = "fetch_failed" /\ cardOutcome = "ok")
                  => [j \in 1..Len(rows) |-> rows[j].sku] = [j \in 1..Len(card_briefs) |-> card_briefs[j].id]

C1_Witness ==
    /\ script = "combined" /\ pc = "done"
    /\ prodOutcome = "fetch_failed" /\ cardOutcome = "ok"
    /\ Len(card_briefs) = 2 /\ card_briefs[1] # card_briefs[2]
    /\ Len(rows) = 2

\* C2: when both sources succeed in the combined export, the rows are the
\* product rows in fetch order followed by the card rows in fetch order, one
\* row per product and per card, and the CSV holds them in that order.
C2_ProductsThenCards ==
    (script = "combined" /\ RowsCollected /\ prodOutcome = "ok" /\ cardOutcome = "ok") =>
        /\ Len(rows) = Len(raw_products) + Len(card_briefs)
        /\ \A i \in 1..Len(raw_products) :
             /\ rows[i].sku = raw_products[i]["id"]
             /\ rows[i].name = raw_products[i]["name"]
             /\ rows[i].price = raw_products[i]["market_value"]
        /\ \A j \in 1..Len(card_briefs) :
             /\ rows[Len(raw_products) + j].sku = card_briefs[j].id
             /\ rows[Len(raw_products) + j].name = card_briefs[j].name \o STR_Hash \o card_briefs[j].localId
             /\ rows[Len(raw_products) + j].price = 0
        /\ pc = "done" =>
             /\ Len(outFile.content) = 1 + Len(rows)
             /\ \A i \in 1..Len(rows) : outFile.content[i + 1][1] = rows[i].handleId

C2_Witness ==
    /\ script = "combined" /\ pc = "done"
    /\ prodOutcome = "ok" /\ cardOutcome = "ok"
    /\ Len(raw_products) = 2 /\ raw_products[1] # raw_products[2]
    /\ Len(card_briefs) = 2 /\ card_briefs[1] # card_briefs[2]

\* the run has loaded the series cache (main of the cache script, or
\* load_series_cache of the card and combined scripts, has its mapping)
CacheLoaded ==
    \/ script = "cache" /\ pc = "done"
    \/ script \in {"cards", "combined"} /\ pc = "transform"
    \/ script \in {"cards", "combined"} /\ RowsCollected /\ cardOutcome = "ok"

\* C3: when the cache file exists at the start of a run, the run makes no
\* call to the series or set source, leaves the file as it was, and the
\* mapping it loads is the file's content, member for member; this holds in
\* every run that follows the one that wrote the file.
C3_LoadOnly ==
    cacheAtStart.exists =>
        /\ cacheFile = cacheAtStart
        /\ \A i \in 1..Len(calls) : calls[i].op \notin SeriesSourceOps
        /\ CacheLoaded =>
             /\ Len(series_mapping) = Len(cacheAtStart.content)
             /\ \A i \in 1..Len(series_mapping) :
                  /\ series_mapping[i][1] = cacheAtStart.content[i].name
                  /\ series_mapping[i][2] = cacheAtStart.content[i].value

C3_Witness ==
    /\ cacheAtStart.exists /\ Len(cacheAtStart.content) = 2
    /\ script = "combined" /\ pc = "done" /\ cardOutcome = "ok"
    /\ Len(card_briefs) > 0

\* C4: when a call to the series or set source fails while the cache is
\* being built, the build stops there and no cache file is written: the
\* cache location is still empty, so the next run builds again.
C4_NoPartialCache ==
    /\ (~cacheAtStart.exists /\ \E op \in SeriesSourceOps : Failed(op)) =>
          /\ ~cacheFile.exists
          /\ ~CacheLoaded
          /\ script = "cache" => pc = "crashed"
    /\ (~cacheAtStart.exists /\ cacheFile.exists /\ script = "cache") =>
          /\ Len(detailed) = Len(series_briefs)
          /\ \A i \in 1..Len(calls) : calls[i].ok

C4_Witness ==
    /\ script = "cache" /\ pc = "crashed"
    /\ Len(detailed) = 1 /\ series_cache # <<>>
    /\ Failed("serie.get")
    /\ ~cacheFile.exists

\* C5 (as claimed): with no cache file, every entry point that loads the
\* cache asks for the series list, then for each series' detail in list
\* order, and the mapping it saves and returns has exactly the entries
\* lowercase(set id) -> series name, one for every set of every series.
C5_BuildFromSeries ==
    (~cacheAtStart.exists /\ CacheLoaded) =>
        /\ Len(calls) > 0
        /\ \E k \in 1..Len(calls) :
             /\ calls[k] = call("serie.list", 0, TRUE)
             /\ \A i \in 1..Len(calls) : calls[i].op \in SeriesSourceOps => i >= k
             /\ \A i \in 1..Len(series_briefs) : calls[k + i] = call("serie.get", series_briefs[i].id, TRUE)
        /\ cacheFile.exists /\ Len(cacheFile.content) = Len(series_mapping)
        /\ \A i \in 1..Len(series_mapping) :
             <<cacheFile.content[i].name, cacheFile.content[i].value>> = series_mapping[i]
        /\ \A i \in 1..Len(detailed) : \A j \in 1..Len(detailed[i].sets) :
             <<lower(detailed[i].sets[j].id), detailed[i].name>> \in dict_items(series_mapping)
        /\ \A e \in dict_items(series_mapping) :
             \E i \in 1..Len(detailed) : \E j \in 1..Len(detailed[i].sets) :
                e = <<lower(detailed[i].sets[j].id), detailed[i].name>>

\* C6 (as claimed): every card row, in the card export and in the combined
\* export, has collection "English;{seriesName} Era; Raw Single".
C6_CollectionSpacing ==
    (script \in {"cards", "combined"} /\ RowsCollected /\ cardOutcome = "ok") =>
        \A j \in 1..Len(card_briefs) :
            rows[NumProductRows + j].collection =
                STR_English
                \o dict_get(series_mapping, lower(split_first(card_briefs[j].id, STR_Dash)), STR_Unknown)
                \o STR_EraRawSingle

\* C7: when a fetched product lacks id, name, img_url or market_value, the
\* product stage contributes no row at all, not even for the well-formed
\* products before it, and the combined run still runs the card stage; a
\* product lacking only language or series does not make the stage fail.
C7_MissingFieldAbortsStage ==
    (script \in {"products", "combined"} /\ Succeeded("products.get")) =>
        /\ (\E i \in 1..Len(raw_products) : ~WellFormed(raw_products[i])) =>
              /\ prodOutcome = "key_error"
              /\ "products" \in logged
              /\ script = "products" => rows = <<>> /\ pc = "done" /\ outFile \in PriorOutputs
              /\ script = "combined" =>
                    /\ pc # "crashed"
                    /\ pc \in {"card_list", "load_cache", "transform"} => rows = <<>>
                    /\ RowsCollected => Called("card.list") /\ Len(rows) = NumCardRows
                    /\ \A r \in 1..Len(rows) : \A i \in 1..Len(raw_products) :
                          WellFormed(raw_products[i]) => rows[r].handleId # raw_products[i]["id"]
        /\ (\A i \in 1..Len(raw_products) : WellFormed(raw_products[i])) =>
              /\ prodOutcome = "ok"
              /\ Len(rows) >= Len(raw_products)
              /\ \A i \in 1..Len(raw_products) : rows[i].handleId = raw_products[i]["id"]

C7_Witness ==
    /\ script = "combined" /\ pc = "done"
    /\ Len(raw_products) = 2
    /\ WellFormed(raw_products[1]) /\ ~WellFormed(raw_products[2])
    /\ cardOutcome = "ok" /\ Len(card_briefs) = 1
    /\ Len(rows) = 1

\* k is the set code of a card id: the lower-cased characters of id up to,
\* and not including, its first '-' (all of id when it has none)
IsSetCodeOf(k, id) ==
    \E n \in 0..Len(id) :
        /\ \A i \in 1..n : id[i] # "-"
        /\ n = Len(id) \/ id[n + 1] = "-"
        /\ k = [i \in 1..n |-> LowerChar(id[i])]

IsPrefix(p, s) == Len(p) <= Len(s) /\ SubSeq(s, 1, Len(p)) = p

\* C8: every card gets a row, whatever its id and the cache; the series in
\* it is the cache's value for the lower-cased part of the id before the
\* first '-', so ids that differ in case or after the '-' resolve alike,
\* and "Unknown" when the cache has no such key.
C8_SeriesLookup ==
    /\ (script \in {"cards", "combined"} /\ pc \in {"transform", "write"} /\ cardOutcome # "ok")
          => cardOutcome \in {"none", "list_failed", "cache_failed"}
    /\ (script \in {"cards", "combined"} /\ RowsCollected /\ cardOutcome = "ok") =>
          \A j \in 1..Len(card_briefs) :
              LET row == rows[NumProductRows + j]
                  id == card_briefs[j].id
              IN /\ row.handleId = id
                 /\ \/ \E e \in dict_items(series_mapping) :
                         /\ IsSetCodeOf(e[1], id)
                         /\ IsPrefix(STR_English \o e[2] \o <<" ", "E", "r", "a", ";">>, row.collection)
                    \/ /\ \A e \in dict_items(series_mapping) : ~IsSetCodeOf(e[1], id)
                       /\ IsPrefix(STR_English \o STR_Unknown \o <<" ", "E", "r", "a", ";">>, row.collection)

C8_Witness ==
    /\ script = "cards" /\ pc = "done" /\ cardOutcome = "ok"
    /\ Len(card_briefs) = 2 /\ card_briefs[1] # card_briefs[2]
    /\ dict_has(series_mapping, SET_swsh8)
    /\ dict_get(series_mapping, SET_swsh8, STR_Unknown) = SeriesName(1)
    /\ rows[1].collection = rows[2].collection

\* C9 (as claimed): in every script, when a top-level fetch raises, the
\* error is printed and the run goes on to the end, where the output file
\* is the header row followed by one row per collected CatalogRow.
C9_AlwaysWrites ==
    (pc \in {"done", "crashed"} /\ (Failed("products.get") \/ Failed("card.list"))) =>
        /\ pc = "done"
        /\ logged # {}
        /\ outFile = File(<<HEADER>> \o [i \in 1..Len(rows) |-> csv_line(rows[i])])

\* the orders in which n series can be processed
Orders(n) == {f \in [1..n -> 1..n] : \A a, b \in 1..n : a # b => f[a] # f[b]}
Reordered(details, f) == [i \in 1..Len(details) |-> details[f[i]]]
SetCodes(detail) == IF detail.has_sets THEN {lower(detail.sets[j].id) : j \in 1..Len(detail.sets)} ELSE {}
DisjointSetCodes(details) ==
    \A a, b \in 1..Len(details) : a # b => SetCodes(details[a]) \cap SetCodes(details[b]) = {}
CacheBuilt == script = "cache" /\ pc = "done" /\ ~cacheAtStart.exists

\* C10 (as claimed): the mapping build_series_cache ends with is the same
\* for every order in which the series are processed.
C10_OrderIndependent ==
    CacheBuilt =>
        \A f \in Orders(Len(detailed)) :
            dict_items(build_all(<<>>, Reordered(detailed, f))) = dict_items(series_mapping)

\* C10 (amended): the mapping is the same for every processing order
\* provided no lower-cased set code is contributed by two of the series.
C10_OrderIndependentWhenDisjoint ==
    (CacheBuilt /\ DisjointSetCodes(detailed)) =>
        \A f \in Orders(Len(detailed)) :
            dict_items(build_all(<<>>, Reordered(detailed, f))) = dict_items(series_mapping)

C10_Witness ==
    /\ CacheBuilt /\ Len(detailed) = 2
    /\ DisjointSetCodes(detailed)
    /\ SetCodes(detailed[1]) # {} /\ SetCodes(detailed[2]) # {}
    /\ Len(series_mapping) = 2
====
